---- MODULE Spec2Model ----
(***************************************************************************)
(* A model of the INT 15h "system" services of src/system.c: the A20 gate  *)
(* (set_a20, handle_1524xx), the protected-mode block move (handle_1587),  *)
(* the extended-memory size queries (handle_1588, handle_15e801) and the   *)
(* memory-map enumeration (handle_15e820).                                 *)
(*                                                                         *)
(* TLC integers are 32-bit signed, so a u32 that may exceed 2^31 - 1 is    *)
(* held in two halves: RamSize as [kib, rem] (bytes = kib * 1024 + rem)    *)
(* and ebx as [hi, lo] (value = hi * 65536 + lo).                          *)
(***************************************************************************)
EXTENDS Integers, Sequences, FiniteSets, TLC

VARIABLES
    pc,               \* position of the CPU: "caller" or a step of handle_1587
    svc,              \* the service that ran last ("none" before the first call)
    regs,             \* struct bregs: the caller's registers, in and out
    call,             \* the register values the last call was made with
    RamSize,          \* global u32 RamSize, as [kib, rem]
    e820_count,       \* global int e820_count
    buf,              \* the caller's buffer at es:di (handle_15e820)
    bufWrites,        \* whether the last call wrote to the caller's buffer
    enum,             \* an enumerating caller: [cursor, seen, done]
    port_a20,         \* the byte read from and written to PORT_A20
    a20log,           \* the last two set_a20 calls: [cond, oldval, newval, ret]
    prev_a20_enable,  \* the local of handle_1587
    cr0,              \* control register 0 (bit 0 is CR0_PE)
    idtr,             \* the interrupt table the CPU uses
    gdtr,             \* the descriptor table the CPU uses
    iflag,            \* the CPU's interrupt-enable flag (EFLAGS.IF)
    irqPending,       \* a device holds an interrupt request line raised
    irqCtx,           \* where the last maskable interrupt was delivered
    gdt,              \* the descriptor table at es:si
    cpu,              \* CPU registers of the block move: [cs, ds, es, ss, cx, si, di]
    mem,              \* physical memory, one 16-bit word per address
    written,          \* the addresses the block move has written to
    entry             \* the machine state when handle_1587 was entered

sizeVars == <<RamSize>>
e820Vars == <<e820_count, buf, bufWrites, enum>>
gateVars == <<port_a20, a20log>>
cpuVars  == <<cr0, idtr, gdtr, iflag, irqPending, irqCtx>>
moveVars == <<prev_a20_enable, gdt, cpu, mem, written, entry>>
vars == <<pc, svc, regs, call, RamSize, e820_count, buf, bufWrites, enum,
          port_a20, a20log, prev_a20_enable, cr0, idtr, gdtr, iflag, irqPending,
          irqCtx, gdt, cpu, mem, written, entry>>

----------------------------------------------------------------------------
(* Program constants.                                                      *)

A20_ENABLE_BIT == 2
CR0_PE == 1
RET_EUNSUPPORTED == 134
E820_SIGNATURE == 1397571920
E820_ENTRY_SIZE == 20
KiB == 1024
Word16 == 65536

(* Bounds of the model.                                                    *)

MaxRamMiB == 70      \* RamSize samples: every whole MiB up to this one
MaxE820 == 3         \* the longest memory map tried
RegBits == 3         \* width of cx, si and di in the block move (16 on the CPU)

----------------------------------------------------------------------------
(* Bit arithmetic on a power-of-two mask.                                  *)

RECURSIVE Pow2(_)
Pow2(n) == IF n = 0 THEN 1 ELSE 2 * Pow2(n - 1)

BitSet(v, mask) == (v \div mask) % 2 = 1
OrBit(v, mask) == IF BitSet(v, mask) THEN v ELSE v + mask
AndNotBit(v, mask) == IF BitSet(v, mask) THEN v - mask ELSE v
Lo16(x) == x % Word16
SetLo16(x, v) == (x \div Word16) * Word16 + (v % Word16)
SetAH(x, v) == (x \div Word16) * Word16 + v * 256 + (x % 256)
SetAL(x, v) == (x \div 256) * 256 + v

(* set_code_fail, set_code_success and set_success on the registers r.     *)
set_code_fail(r, code) == [r EXCEPT !.eax = SetAH(r.eax, code), !.cf = 1]
set_code_success(r) == [r EXCEPT !.eax = SetAH(r.eax, 0), !.cf = 0]
set_success(r) == [r EXCEPT !.cf = 0]

Regs0 == [eax |-> 0, ebx |-> [hi |-> 0, lo |-> 0], ecx |-> 0, edx |-> 0,
          es |-> 0, si |-> 0, cf |-> 0]

----------------------------------------------------------------------------
(* The extended-memory size queries.  RamSize = kib * 1024 + rem bytes.    *)

RamKiB ==
    {0, 1, 512, 1023, 1025, 15 * KiB + 1, 16 * KiB - 1, 16 * KiB + 1,
     16 * KiB + 63, 16 * KiB + 64, 16 * KiB + 65, 64 * KiB - 1, 64 * KiB + 1,
     100 * KiB, 2048 * KiB, 4096 * KiB - 1}
    \cup {m * KiB : m \in 0..MaxRamMiB}
RamRem == {0, 1, KiB - 1}
RamSizes == [kib : RamKiB, rem : RamRem]

(* rs > mib * 1024 * 1024 and rs <= other, on u32 values.                  *)
RamAbove(rs, mib) == rs.kib > mib * KiB \/ (rs.kib = mib * KiB /\ rs.rem > 0)
RamLeq(a, b) == a.kib < b.kib \/ (a.kib = b.kib /\ a.rem <= b.rem)

(* (rs - 1*1024*1024) / 1024 in u32 arithmetic: the subtraction wraps      *)
(* modulo 2^32, which is 2^22 KiB.                                         *)
SubMiBDivKiB(rs) == (rs.kib - 1 * KiB + 4096 * KiB) % (4096 * KiB)

(* (rs - 16*1024*1024) / (64*1024), used only when rs > 16 MiB.            *)
Sub16MiBDiv64KiB(rs) == (rs.kib - 16 * KiB) \div 64

(* The value handle_1588 stores in the 16-bit regs->ax.                    *)
ext_mem_1588_nocap(rs) == SubMiBDivKiB(rs) % Word16
ext_mem_1588(rs) ==
    IF RamAbove(rs, 64) THEN 63 * KiB ELSE SubMiBDivKiB(rs) % Word16

(* The values handle_15e801 stores in the 16-bit regs->cx and regs->dx.    *)
e801_cx(rs) == IF RamAbove(rs, 16) THEN 15 * KiB ELSE SubMiBDivKiB(rs) % Word16
e801_dx_bytes(rs) == IF RamAbove(rs, 16) THEN (rs.kib - 16 * KiB) % Word16 ELSE 0
e801_dx(rs) == IF RamAbove(rs, 16) THEN Sub16MiBDiv64KiB(rs) % Word16 ELSE 0

handle_1588 ==
    /\ pc = "caller"
    /\ svc' = "1588"
    /\ call' = regs
    /\ regs' = set_success([regs EXCEPT !.eax = SetLo16(@, ext_mem_1588(RamSize))])
    /\ UNCHANGED <<pc, sizeVars, e820Vars, gateVars, cpuVars, moveVars>>

handle_15e801 ==
    /\ pc = "caller"
    /\ svc' = "e801"
    /\ call' = regs
    /\ LET r1 == [regs EXCEPT !.ecx = SetLo16(@, e801_cx(RamSize)),
                              !.edx = SetLo16(@, e801_dx(RamSize))]
           r2 == [r1 EXCEPT !.eax = SetLo16(@, Lo16(r1.ecx)),
                            !.ebx.lo = Lo16(r1.edx)]
       IN  regs' = set_success(r2)
    /\ UNCHANGED <<pc, sizeVars, e820Vars, gateVars, cpuVars, moveVars>>

----------------------------------------------------------------------------
(* The memory-map enumeration.                                             *)

(* e820_list[i]: the map is filled once at boot and only read here.        *)
e820_list(i) == [start |-> i * 4096, size |-> 4096, type |-> 1 + (i % 2)]
NoEntry == [start |-> -1, size |-> 0, type |-> 0]

(* regs->ebx++ on a u32 held as [hi, lo].                                  *)
Inc32(x) ==
    IF x.lo = Word16 - 1 THEN [hi |-> (x.hi + 1) % Word16, lo |-> 0]
    ELSE [hi |-> x.hi, lo |-> x.lo + 1]
Zero32 == [hi |-> 0, lo |-> 0]

(* The registers a caller may pass to INT 15h AX=E820h.                    *)
EbxInputs == [hi : {0, 1, Word16 - 1}, lo : (0..(MaxE820 + 1)) \cup {Word16 - 1}]
EcxInputs == {0, E820_ENTRY_SIZE - 1, E820_ENTRY_SIZE, E820_ENTRY_SIZE + 1,
              Word16 + E820_ENTRY_SIZE}
EdxInputs == {E820_SIGNATURE, E820_SIGNATURE + 1, E820_SIGNATURE % Word16}
E820Regs(b, c, d) == [Regs0 EXCEPT !.eax = 59424, !.ebx = b, !.ecx = c, !.edx = d]

(* handle_15e820 on the registers `in`: the registers it leaves, the       *)
(* buffer at es:di afterwards and whether memcpy_far wrote to it.          *)
handle_15e820_offbyone(in) ==
    LET count == e820_count IN
    IF in.edx # E820_SIGNATURE \/ in.ebx.lo >= count \/ in.ecx < E820_ENTRY_SIZE
    THEN [regs |-> set_code_fail(in, RET_EUNSUPPORTED), buf |-> buf, wrote |-> FALSE]
    ELSE [regs |-> set_success(
                     [in EXCEPT !.ebx = IF in.ebx.lo = count THEN Zero32
                                        ELSE Inc32(in.ebx),
                                !.eax = E820_SIGNATURE,
                                !.ecx = E820_ENTRY_SIZE]),
          buf |-> e820_list(in.ebx.lo), wrote |-> TRUE]

handle_15e820_nosize(in) ==
    LET count == e820_count IN
    IF in.edx # E820_SIGNATURE \/ in.ebx.lo >= count
    THEN [regs |-> set_code_fail(in, RET_EUNSUPPORTED), buf |-> buf, wrote |-> FALSE]
    ELSE [regs |-> set_success(
                     [in EXCEPT !.ebx = IF in.ebx.lo = count - 1 THEN Zero32
                                        ELSE Inc32(in.ebx),
                                !.eax = E820_SIGNATURE,
                                !.ecx = E820_ENTRY_SIZE]),
          buf |-> e820_list(in.ebx.lo), wrote |-> TRUE]

handle_15e820(in) ==
    LET count == e820_count IN
    IF in.edx # E820_SIGNATURE \/ in.ebx.lo >= count \/ in.ecx < E820_ENTRY_SIZE
    THEN [regs |-> set_code_fail(in, RET_EUNSUPPORTED), buf |-> buf, wrote |-> FALSE]
    ELSE [regs |-> set_success(
                     [in EXCEPT !.ebx = IF in.ebx.lo = count - 1 THEN Zero32
                                        ELSE Inc32(in.ebx),
                                !.eax = E820_SIGNATURE,
                                !.ecx = E820_ENTRY_SIZE]),
          buf |-> e820_list(in.ebx.lo), wrote |-> TRUE]

(* A caller invokes the service with registers of its choosing.            *)
Int15_e820 ==
    /\ pc = "caller"
    /\ \E b \in EbxInputs, c \in EcxInputs, d \in EdxInputs :
         LET in == E820Regs(b, c, d)
             out == handle_15e820(in)
         IN  /\ call' = in
             /\ regs' = out.regs
             /\ buf' = out.buf
             /\ bufWrites' = out.wrote
    /\ svc' = "e820"
    /\ UNCHANGED <<pc, e820_count, enum, sizeVars, gateVars, cpuVars, moveVars>>

(* An enumerating caller: it starts from cursor 0 and passes back the      *)
(* continuation value the previous successful call returned.               *)
Enum0 == [cursor |-> Zero32, seen |-> <<>>, done |-> FALSE, failed |-> FALSE]

EnumNext ==
    /\ pc = "caller"
    /\ ~enum.done
    /\ LET in == E820Regs(enum.cursor, E820_ENTRY_SIZE, E820_SIGNATURE)
           out == handle_15e820(in)
       IN  /\ call' = in
           /\ regs' = out.regs
           /\ buf' = out.buf
           /\ bufWrites' = out.wrote
           /\ enum' = IF out.regs.cf = 1
                      THEN [enum EXCEPT !.done = TRUE, !.failed = TRUE]
                      ELSE [cursor |-> out.regs.ebx,
                            seen |-> Append(enum.seen, out.buf),
                            done |-> out.regs.ebx = Zero32,
                            failed |-> FALSE]
    /\ svc' = "e820"
    /\ UNCHANGED <<pc, e820_count, sizeVars, gateVars, cpuVars, moveVars>>

EnumRestart ==
    /\ pc = "caller"
    /\ enum.done
    /\ enum' = Enum0
    /\ UNCHANGED <<pc, svc, regs, call, e820_count, buf, bufWrites,
                   sizeVars, gateVars, cpuVars, moveVars>>

----------------------------------------------------------------------------
(* The A20 gate.                                                           *)

(* set_a20(cond) on the current port value: the byte it writes back and    *)
(* the value it returns.                                                   *)
set_a20_clobber(cond) ==
    [newval |-> IF cond # 0 THEN A20_ENABLE_BIT ELSE 0,
     ret    |-> IF BitSet(port_a20, A20_ENABLE_BIT) THEN 1 ELSE 0]

set_a20(cond) ==
    [newval |-> IF cond # 0 THEN OrBit(port_a20, A20_ENABLE_BIT)
                ELSE AndNotBit(port_a20, A20_ENABLE_BIT),
     ret    |-> IF BitSet(port_a20, A20_ENABLE_BIT) THEN 1 ELSE 0]

Last2(q) == IF Len(q) > 2 THEN Tail(q) ELSE q

(* The outb of set_a20(cond), and the record of the call.                  *)
OutA20(cond) ==
    LET r == set_a20(cond) IN
    /\ port_a20' = r.newval
    /\ a20log' = Last2(Append(a20log, [cond |-> cond, oldval |-> port_a20,
                                       newval |-> r.newval, ret |-> r.ret]))

GateRegs(al) == [Regs0 EXCEPT !.eax = 9216 + al]

handle_152400 ==
    /\ pc = "caller"
    /\ OutA20(0)
    /\ call' = GateRegs(0)
    /\ regs' = set_code_success(GateRegs(0))
    /\ svc' = "152400"
    /\ UNCHANGED <<pc, sizeVars, e820Vars, cpuVars, moveVars>>

handle_152401 ==
    /\ pc = "caller"
    /\ OutA20(1)
    /\ call' = GateRegs(1)
    /\ regs' = set_code_success(GateRegs(1))
    /\ svc' = "152401"
    /\ UNCHANGED <<pc, sizeVars, e820Vars, cpuVars, moveVars>>

handle_152402 ==
    /\ pc = "caller"
    /\ call' = GateRegs(2)
    /\ regs' = set_code_success(
                 [GateRegs(2) EXCEPT !.eax =
                     SetAL(@, IF BitSet(port_a20, A20_ENABLE_BIT) THEN 1 ELSE 0)])
    /\ svc' = "152402"
    /\ UNCHANGED <<pc, sizeVars, e820Vars, gateVars, cpuVars, moveVars>>

handle_152403 ==
    /\ pc = "caller"
    /\ call' = GateRegs(3)
    /\ regs' = set_code_success([GateRegs(3) EXCEPT !.ebx.lo = 3])
    /\ svc' = "152403"
    /\ UNCHANGED <<pc, sizeVars, e820Vars, gateVars, cpuVars, moveVars>>

handle_1524XX ==
    /\ pc = "caller"
    /\ \E al \in {4, 255} :
         /\ call' = GateRegs(al)
         /\ regs' = set_code_fail(GateRegs(al), RET_EUNSUPPORTED)
    /\ svc' = "1524XX"
    /\ UNCHANGED <<pc, sizeVars, e820Vars, gateVars, cpuVars, moveVars>>

----------------------------------------------------------------------------
(* The block move.  cx, si and di are RegBits wide, so an offset spans     *)
(* RegSpan bytes, SegWords words, and a count is below RegSpan.  Memory    *)
(* is addressed in words; a descriptor's base is a word address.           *)

RegSpan == Pow2(RegBits)
SegWords == RegSpan \div 2
MemWords == 4 * SegWords
Fill == [a \in 0..(MemWords - 1) |-> 100 + a]

(* Source and destination regions that do not overlap for any count.       *)
BasePairs == {<<0, 2 * SegWords>>, <<2 * SegWords, 0>>}

NullDesc == [type |-> "null", limit |-> 0, base |-> 0]
DataDesc(limit, base) == [type |-> "data", limit |-> limit, base |-> base]
CodeDesc(limit, base) == [type |-> "code", limit |-> limit, base |-> base]
MAKE_FLATPTR(sg, off) == sg * 16 + off

NoCall == [port |-> 0, cr0 |-> 0, idtr |-> "none", iflag |-> FALSE,
           src |-> 0, dst |-> 0, count |-> 0]

(* The interrupt entry stub runs the handlers with interrupts disabled.    *)
EntryIF == FALSE

(* INT 15h AH=87h: the caller has filled slots 2 and 3 of the table at     *)
(* es:si and the two regions, and handle_15 dispatches to handle_1587.     *)
Int15_87 ==
    /\ pc = "caller"
    /\ \E count \in 0..(RegSpan - 1), bp \in BasePairs :
         /\ regs' = [Regs0 EXCEPT !.eax = 34560, !.ecx = count,
                                  !.es = 1792, !.si = 256]
         /\ gdt' = [i \in 0..5 |->
                      IF i = 2 THEN DataDesc(RegSpan - 1, bp[1])
                      ELSE IF i = 3 THEN DataDesc(RegSpan - 1, bp[2])
                      ELSE NullDesc]
         /\ entry' = [port |-> port_a20, cr0 |-> cr0, idtr |-> idtr,
                      iflag |-> iflag, src |-> bp[1], dst |-> bp[2],
                      count |-> count]
    /\ call' = regs'
    /\ mem' = Fill
    /\ written' = {}
    /\ cpu' = [cs |-> 61440, ds |-> 48, es |-> 48, ss |-> 48,
               cx |-> 0, si |-> 0, di |-> 0]
    /\ iflag' = EntryIF
    /\ svc' = "1587"
    /\ pc' = "set_a20_on"
    /\ UNCHANGED <<sizeVars, e820Vars, gateVars, prev_a20_enable,
                   cr0, idtr, gdtr, irqPending, irqCtx>>

(* u8 prev_a20_enable = set_a20(1);                                        *)
handle_1587_a20_on_sti ==
    /\ pc = "set_a20_on"
    /\ prev_a20_enable' = set_a20(1).ret
    /\ OutA20(1)
    /\ iflag' = TRUE
    /\ pc' = "init_gdt"
    /\ UNCHANGED <<svc, regs, call, sizeVars, e820Vars, cr0, idtr, gdtr,
                   irqPending, irqCtx, gdt, cpu, mem, written, entry>>

handle_1587_a20_on ==
    /\ pc = "set_a20_on"
    /\ prev_a20_enable' = set_a20(1).ret
    /\ OutA20(1)
    /\ pc' = "init_gdt"
    /\ UNCHANGED <<svc, regs, call, sizeVars, e820Vars, cpuVars,
                   gdt, cpu, mem, written, entry>>

(* The GDT, CS and SS descriptors, and count = regs->cx.                   *)
handle_1587_init_gdt ==
    /\ pc = "init_gdt"
    /\ gdt' = [gdt EXCEPT
                 ![1] = DataDesc(6 * 8 - 1, MAKE_FLATPTR(regs.es, regs.si)),
                 ![4] = CodeDesc(Word16 - 1, 983040),
                 ![5] = DataDesc(Word16 - 1, MAKE_FLATPTR(cpu.ss, 0))]
    /\ cpu' = [cpu EXCEPT !.cx = Lo16(regs.ecx) % RegSpan, !.si = regs.si,
                          !.es = regs.es]
    /\ pc' = "load_tables"
    /\ UNCHANGED <<svc, regs, call, sizeVars, e820Vars, gateVars, cpuVars,
                   prev_a20_enable, mem, written, entry>>

(* lgdtw %es:(1<<3)(%si) ; lidtw %cs:pmode_IDT_info                        *)
handle_1587_load_tables ==
    /\ pc = "load_tables"
    /\ gdtr' = [base |-> gdt[1].base, limit |-> gdt[1].limit]
    /\ idtr' = "pmode_IDT_info"
    /\ pc' = "enable_pe"
    /\ UNCHANGED <<svc, regs, call, sizeVars, e820Vars, gateVars, moveVars,
                   cr0, iflag, irqPending, irqCtx>>

(* cr0 |= CR0_PE                                                           *)
handle_1587_enable_pe ==
    /\ pc = "enable_pe"
    /\ cr0' = OrBit(cr0, CR0_PE)
    /\ pc' = "ljmp_pm"
    /\ UNCHANGED <<svc, regs, call, sizeVars, e820Vars, gateVars, moveVars,
                   idtr, gdtr, iflag, irqPending, irqCtx>>

(* ljmpw $(4<<3), $1f                                                      *)
handle_1587_ljmp_pm ==
    /\ pc = "ljmp_pm"
    /\ cpu' = [cpu EXCEPT !.cs = 4 * 8]
    /\ pc' = "load_segs"
    /\ UNCHANGED <<svc, regs, call, sizeVars, e820Vars, gateVars, cpuVars,
                   prev_a20_enable, gdt, mem, written, entry>>

(* ds = 2<<3 ; es = 3<<3 ; si = 0 ; di = 0                                 *)
handle_1587_load_segs ==
    /\ pc = "load_segs"
    /\ cpu' = [cpu EXCEPT !.ds = 2 * 8, !.es = 3 * 8, !.si = 0, !.di = 0]
    /\ pc' = "movsw"
    /\ UNCHANGED <<svc, regs, call, sizeVars, e820Vars, gateVars, cpuVars,
                   prev_a20_enable, gdt, mem, written, entry>>

(* One iteration of rep movsw: a word from ds:si to es:di, si and di       *)
(* advance by two within their width, cx counts down.                      *)
handle_1587_movsw ==
    /\ pc = "movsw"
    /\ cpu.cx # 0
    /\ LET from == gdt[cpu.ds \div 8].base + (cpu.si \div 2)
           to   == gdt[cpu.es \div 8].base + (cpu.di \div 2)
       IN  /\ mem' = [mem EXCEPT ![to] = mem[from]]
           /\ written' = written \cup {to}
    /\ cpu' = [cpu EXCEPT !.si = (@ + 2) % RegSpan, !.di = (@ + 2) % RegSpan,
                          !.cx = @ - 1]
    /\ UNCHANGED <<pc, svc, regs, call, sizeVars, e820Vars, gateVars, cpuVars,
                   prev_a20_enable, gdt, entry>>

(* cr0 &= ~CR0_PE, once rep movsw has run cx down to zero.                 *)
handle_1587_disable_pe ==
    /\ pc = "movsw"
    /\ cpu.cx = 0
    /\ cr0' = AndNotBit(cr0, CR0_PE)
    /\ pc' = "ljmp_rm"
    /\ UNCHANGED <<svc, regs, call, sizeVars, e820Vars, gateVars, moveVars,
                   idtr, gdtr, iflag, irqPending, irqCtx>>

(* ljmpw $SEG_BIOS, $2f                                                    *)
handle_1587_ljmp_rm ==
    /\ pc = "ljmp_rm"
    /\ cpu' = [cpu EXCEPT !.cs = 61440]
    /\ pc' = "restore_idt"
    /\ UNCHANGED <<svc, regs, call, sizeVars, e820Vars, gateVars, cpuVars,
                   prev_a20_enable, gdt, mem, written, entry>>

(* lidtw %cs:rmode_IDT_info                                                *)
handle_1587_restore_idt_skip ==
    /\ pc = "restore_idt"
    /\ pc' = "restore_ds"
    /\ UNCHANGED <<svc, regs, call, sizeVars, e820Vars, gateVars, moveVars,
                   cpuVars>>

handle_1587_restore_idt ==
    /\ pc = "restore_idt"
    /\ idtr' = "rmode_IDT_info"
    /\ pc' = "restore_ds"
    /\ UNCHANGED <<svc, regs, call, sizeVars, e820Vars, gateVars, moveVars,
                   cr0, gdtr, iflag, irqPending, irqCtx>>

(* ds = ss                                                                 *)
handle_1587_restore_ds ==
    /\ pc = "restore_ds"
    /\ cpu' = [cpu EXCEPT !.ds = cpu.ss]
    /\ pc' = "set_a20_prev"
    /\ UNCHANGED <<svc, regs, call, sizeVars, e820Vars, gateVars, cpuVars,
                   prev_a20_enable, gdt, mem, written, entry>>

(* set_a20(prev_a20_enable);                                               *)
handle_1587_a20_restore_skip ==
    /\ pc = "set_a20_prev"
    /\ pc' = "ret"
    /\ UNCHANGED <<svc, regs, call, sizeVars, e820Vars, gateVars, cpuVars,
                   moveVars>>

handle_1587_a20_restore ==
    /\ pc = "set_a20_prev"
    /\ OutA20(prev_a20_enable)
    /\ pc' = "ret"
    /\ UNCHANGED <<svc, regs, call, sizeVars, e820Vars, cpuVars, moveVars>>

(* set_code_success(regs), and the return to the caller, whose flags the   *)
(* interrupt return restores.                                              *)
handle_1587_ret ==
    /\ pc = "ret"
    /\ regs' = set_code_success(regs)
    /\ iflag' = entry.iflag
    /\ pc' = "caller"
    /\ UNCHANGED <<svc, call, sizeVars, e820Vars, gateVars, moveVars,
                   cr0, idtr, gdtr, irqPending, irqCtx>>

(* Maskable interrupts: a device raises its request line at any time; the  *)
(* CPU takes the interrupt only while its interrupt flag is set.           *)
NoIrq == [pc |-> "none", pe |-> FALSE, idtr |-> "none"]

RaiseIrq ==
    /\ ~irqPending
    /\ irqPending' = TRUE
    /\ UNCHANGED <<pc, svc, regs, call, sizeVars, e820Vars, gateVars, moveVars,
                   cr0, idtr, gdtr, iflag, irqCtx>>

DeliverIrq ==
    /\ irqPending
    /\ iflag
    /\ irqPending' = FALSE
    /\ irqCtx' = [pc |-> pc, pe |-> BitSet(cr0, CR0_PE), idtr |-> idtr]
    /\ UNCHANGED <<pc, svc, regs, call, sizeVars, e820Vars, gateVars, moveVars,
                   cr0, idtr, gdtr, iflag>>

----------------------------------------------------------------------------
(* The specifications.                                                     *)

PortInputs == {0, 2, 253, 255}
Cr0Inputs == {0, 16}
IdtInputs == {"rmode_IDT_info", "caller_IDT"}

InitWith(rs, n, port, c, idt, ifl) ==
    /\ pc = "caller"
    /\ svc = "none"
    /\ regs = Regs0
    /\ call = Regs0
    /\ RamSize = rs
    /\ e820_count = n
    /\ buf = NoEntry
    /\ bufWrites = FALSE
    /\ enum = Enum0
    /\ port_a20 = port
    /\ a20log = <<>>
    /\ prev_a20_enable = 0
    /\ cr0 = c
    /\ idtr = idt
    /\ gdtr = [base |-> 0, limit |-> 0]
    /\ iflag = ifl
    /\ irqPending = FALSE
    /\ irqCtx = NoIrq
    /\ gdt = [i \in 0..5 |-> NullDesc]
    /\ cpu = [cs |-> 0, ds |-> 0, es |-> 0, ss |-> 48, cx |-> 0, si |-> 0, di |-> 0]
    /\ mem = Fill
    /\ written = {}
    /\ entry = NoCall

(* The block move, with interrupts.                                        *)
Init ==
    \E port \in PortInputs, c \in Cr0Inputs, idt \in IdtInputs, ifl \in BOOLEAN :
        InitWith([kib |-> 2 * KiB, rem |-> 0], 0, port, c, idt, ifl)

Next ==
    \/ Int15_87
    \/ handle_1587_a20_on
    \/ handle_1587_init_gdt
    \/ handle_1587_load_tables
    \/ handle_1587_enable_pe
    \/ handle_1587_ljmp_pm
    \/ handle_1587_load_segs
    \/ handle_1587_movsw
    \/ handle_1587_disable_pe
    \/ handle_1587_ljmp_rm
    \/ handle_1587_restore_idt
    \/ handle_1587_restore_ds
    \/ handle_1587_a20_restore
    \/ handle_1587_ret
    \/ RaiseIrq
    \/ DeliverIrq

Spec == Init /\ [][Next]_vars

(* The size queries, for the memory sizes RamSizes.                        *)
InitSize ==
    \E rs \in RamSizes : InitWith(rs, 0, 0, 0, "rmode_IDT_info", FALSE)

NextSize == handle_1588 \/ handle_15e801

SpecSize == InitSize /\ [][NextSize]_vars

(* The memory-map enumeration, for maps of 0..MaxE820 entries.             *)
InitE820 ==
    \E n \in 0..MaxE820 :
        InitWith([kib |-> 2 * KiB, rem |-> 0], n, 0, 0, "rmode_IDT_info", FALSE)

NextE820 == Int15_e820 \/ EnumNext \/ EnumRestart

SpecE820 == InitE820 /\ [][NextE820]_vars

(* The gate services, from every value of the port.                        *)
InitGate ==
    \E port \in 0..255 :
        InitWith([kib |-> 2 * KiB, rem |-> 0], 0, port, 0, "rmode_IDT_info", FALSE)

NextGate ==
    \/ handle_152400
    \/ handle_152401
    \/ handle_152402
    \/ handle_152403
    \/ handle_1524XX

SpecGate == InitGate /\ [][NextGate]_vars

----------------------------------------------------------------------------
(* Properties of the memory-map enumeration (SpecE820).                    *)

Ah(r) == (r.eax \div 256) % 256
Failed(r) == r.cf = 1 /\ Ah(r) = RET_EUNSUPPORTED
AfterE820 == svc = "e820"
CursorValid(b) == b.hi = 0 /\ b.lo < e820_count

(* C1: on a map of N >= 1 entries, an enumeration that starts at cursor 0  *)
(* and passes back each returned continuation value receives entries       *)
(* 0, 1, ..., N-1 in table order, each once; after k successful calls the  *)
(* continuation value is k while k < N, and it is 0 exactly after the call *)
(* made with cursor N-1.                                                   *)
C1_EnumerationInOrder ==
    e820_count >= 1 =>
        /\ ~enum.failed
        /\ Len(enum.seen) <= e820_count
        /\ \A i \in 1..Len(enum.seen) : enum.seen[i] = e820_list(i - 1)
        /\ IF enum.done
           THEN Len(enum.seen) = e820_count /\ enum.cursor = Zero32
           ELSE /\ Len(enum.seen) < e820_count
                /\ enum.cursor = [hi |-> 0, lo |-> Len(enum.seen)]
                /\ (Len(enum.seen) > 0 => enum.cursor # Zero32)

C1_Witness ==
    /\ e820_count = MaxE820
    /\ enum.done
    /\ ~enum.failed
    /\ Len(enum.seen) = e820_count

(* C2 as stated: a call whose record size differs from the entry size,     *)
(* smaller or larger, fails with the unsupported status and writes nothing *)
(* to the caller's buffer, whatever the cursor and the signature.          *)
C2_AnyOtherSizeRejected ==
    (AfterE820 /\ call.ecx # E820_ENTRY_SIZE) => (Failed(regs) /\ ~bufWrites)

(* C2 amended: a record size below the entry size fails with the           *)
(* unsupported status and writes nothing, whatever the cursor and the      *)
(* signature; a larger record size is accepted: with a valid signature and *)
(* cursor the call succeeds, writes one entry and reports the entry size   *)
(* in ecx.                                                                 *)
C2_SmallerSizeRejected ==
    /\ (AfterE820 /\ call.ecx < E820_ENTRY_SIZE) =>
           (Failed(regs) /\ ~bufWrites /\ regs.ebx = call.ebx)
    /\ (AfterE820 /\ call.ecx > E820_ENTRY_SIZE /\ call.edx = E820_SIGNATURE
          /\ call.ebx.lo < e820_count) =>
           /\ regs.cf = 0
           /\ bufWrites
           /\ buf = e820_list(call.ebx.lo)
           /\ regs.ecx = E820_ENTRY_SIZE

C2_Witness ==
    /\ AfterE820
    /\ call.ecx = E820_ENTRY_SIZE - 1
    /\ call.edx = E820_SIGNATURE
    /\ CursorValid(call.ebx)
    /\ Failed(regs)

(* C3: a call whose 32-bit continuation register is >= the table length,   *)
(* or whose signature is not the magic value, fails, writes nothing to the *)
(* caller's buffer and leaves the continuation register unchanged.         *)
C3_BadCursorOrSignatureRejected ==
    (AfterE820 /\ (~CursorValid(call.ebx) \/ call.edx # E820_SIGNATURE)) =>
        (regs.cf = 1 /\ ~bufWrites /\ regs.ebx = call.ebx)

----------------------------------------------------------------------------
(* Properties of the size queries (SpecSize).                              *)

AtLeast1MiB(rs) == rs.kib >= 1 * KiB

(* The figures of the specification, in unbounded arithmetic.              *)
LegacyKiB(rs) == IF RamAbove(rs, 64) THEN 63 * KiB ELSE rs.kib - 1 * KiB
Below16M(rs) == IF RamAbove(rs, 16) THEN 15 * KiB ELSE rs.kib - 1 * KiB
Above16M(rs) == IF RamAbove(rs, 16) THEN (rs.kib - 16 * KiB) \div 64 ELSE 0

(* C7 as stated: for every R in the 32-bit RamSize the result is 63*1024   *)
(* when R > 64 MiB and (R - 1 MiB)/1024 otherwise, never exceeds 63*1024   *)
(* and is non-decreasing in R.                                             *)
C7_LegacySizeEveryR ==
    svc = "1588" =>
        /\ Lo16(regs.eax) = LegacyKiB(RamSize)
        /\ Lo16(regs.eax) <= 63 * KiB
        /\ \A r \in RamSizes : RamLeq(r, RamSize) => ext_mem_1588(r) <= Lo16(regs.eax)

(* C7 amended: the same, for every R of at least 1 MiB.                    *)
C7_LegacySizeFrom1MiB ==
    (svc = "1588" /\ AtLeast1MiB(RamSize)) =>
        /\ Lo16(regs.eax) = LegacyKiB(RamSize)
        /\ Lo16(regs.eax) <= 63 * KiB
        /\ \A r \in RamSizes :
             (AtLeast1MiB(r) /\ RamLeq(r, RamSize)) =>
                 ext_mem_1588(r) <= Lo16(regs.eax)
        /\ regs.cf = 0

C7_Witness ==
    /\ svc = "1588"
    /\ RamAbove(RamSize, 64)
    /\ Lo16(regs.eax) = 63 * KiB

(* C9 as stated: for every R the result is (15*1024, (R - 16 MiB)/64 KiB)  *)
(* when R > 16 MiB and ((R - 1 MiB)/1024, 0) otherwise, each held without  *)
(* truncation in its 16-bit register, and (ax, bx) equals (cx, dx).        *)
C9_ExtendedSizeEveryR ==
    svc = "e801" =>
        /\ Lo16(regs.ecx) = Below16M(RamSize)
        /\ Lo16(regs.edx) = Above16M(RamSize)
        /\ Lo16(regs.eax) = Lo16(regs.ecx)
        /\ regs.ebx.lo = Lo16(regs.edx)

(* C9 amended: the same, for every R of at least 1 MiB.                    *)
C9_ExtendedSizeFrom1MiB ==
    (svc = "e801" /\ AtLeast1MiB(RamSize)) =>
        /\ Lo16(regs.ecx) = Below16M(RamSize)
        /\ Lo16(regs.edx) = Above16M(RamSize)
        /\ Lo16(regs.eax) = Lo16(regs.ecx)
        /\ regs.ebx.lo = Lo16(regs.edx)
        /\ regs.cf = 0

C9_Witness ==
    /\ svc = "e801"
    /\ RamSize = [kib |-> 20 * KiB, rem |-> 0]
    /\ Lo16(regs.ecx) = 15 * KiB
    /\ Lo16(regs.edx) = 64

----------------------------------------------------------------------------
(* Properties of the gate services (SpecGate).                             *)

EnableThenDisable ==
    /\ Len(a20log) = 2
    /\ a20log[1].cond = 1
    /\ a20log[2].cond = 0

(* C8 as stated: from every value of the port, set_a20(1) followed by      *)
(* set_a20(0) leaves the gate bit as it was before the two calls, and the  *)
(* second call returns 1.                                                  *)
C8_RoundTripRestores ==
    EnableThenDisable =>
        /\ BitSet(port_a20, A20_ENABLE_BIT) = BitSet(a20log[1].oldval, A20_ENABLE_BIT)
        /\ a20log[2].ret = 1

(* C8 amended: from every value of the port, set_a20(1) followed by        *)
(* set_a20(0) leaves the gate bit clear and every other bit of the port as *)
(* it was, so the port is restored exactly when the gate was disabled      *)
(* before the two calls; the second call returns 1.                        *)
C8_RoundTripDisables ==
    EnableThenDisable =>
        /\ ~BitSet(port_a20, A20_ENABLE_BIT)
        /\ port_a20 = AndNotBit(a20log[1].oldval, A20_ENABLE_BIT)
        /\ (port_a20 = a20log[1].oldval) = ~BitSet(a20log[1].oldval, A20_ENABLE_BIT)
        /\ a20log[2].ret = 1

C8_Witness ==
    /\ EnableThenDisable
    /\ a20log[1].oldval = 253
    /\ port_a20 = 253

----------------------------------------------------------------------------
(* Properties of the block move (Spec).                                    *)

Returned == pc = "caller" /\ svc = "1587"
ProtectedMode == BitSet(cr0, CR0_PE)
InTransition == ProtectedMode \/ idtr = "pmode_IDT_info"

(* C4: when handle_1587 returns, the port holds the value, and so the gate *)
(* bit, it held when the call was made, whether the gate was enabled or    *)
(* disabled then; the gate is enabled from the first set_a20 until the     *)
(* restore, so while the copy runs.                                        *)
C4_GateRestored ==
    /\ Returned =>
          /\ BitSet(port_a20, A20_ENABLE_BIT) = BitSet(entry.port, A20_ENABLE_BIT)
          /\ port_a20 = entry.port
    /\ (pc \notin {"caller", "set_a20_on", "ret"}) => BitSet(port_a20, A20_ENABLE_BIT)
    /\ (pc \notin {"caller", "set_a20_on"}) =>
          prev_a20_enable = (IF BitSet(entry.port, A20_ENABLE_BIT) THEN 1 ELSE 0)

C4_Witness ==
    /\ Returned
    /\ ~BitSet(entry.port, A20_ENABLE_BIT)
    /\ ~BitSet(port_a20, A20_ENABLE_BIT)
    /\ written # {}

(* C5: for every word count the registers can hold, when the call returns  *)
(* word i of the destination equals the original word i of the source for  *)
(* every i below the count, no destination word at or above the count was  *)
(* written, and a count of 0 writes nothing.                               *)
C5_ExactlyCountWordsCopied ==
    Returned =>
        /\ \A i \in 0..(entry.count - 1) : mem[entry.dst + i] = Fill[entry.src + i]
        /\ written \subseteq {entry.dst + i : i \in 0..(entry.count - 1)}
        /\ (entry.count = 0 => written = {})

(* C6 as stated: when the call returns, protected mode is off and the      *)
(* interrupt table is the one in effect when the call was made, whichever  *)
(* table the caller had loaded.                                            *)
C6_CallerIdtRestored ==
    Returned => (~ProtectedMode /\ idtr = entry.idtr)

(* C6 amended: when the call returns, protected mode is off, cr0 is as it  *)
(* was, and the interrupt table is the real-mode default rmode_IDT_info:   *)
(* the table in effect before the call only if the caller ran with that    *)
(* default.                                                                *)
C6_DefaultIdtRestored ==
    Returned =>
        /\ ~ProtectedMode
        /\ cr0 = entry.cr0
        /\ idtr = "rmode_IDT_info"
        /\ (idtr = entry.idtr) = (entry.idtr = "rmode_IDT_info")

C6_Witness ==
    /\ Returned
    /\ entry.idtr = "rmode_IDT_info"
    /\ idtr = "rmode_IDT_info"
    /\ entry.count > 0

====
